---- MODULE Spec2Model ----
(***************************************************************************)
(* A model of the weather forecast API: the WeatherDataHandler (the Store, *)
(* weather_api/data_handler.py) and the three FastAPI handlers in front of *)
(* it (weather_api/api.py).                                                *)
(*                                                                         *)
(* Time is counted in whole seconds from the midnight that starts "day 0". *)
(* A belief_time is a pair [s, ns]: whole seconds plus a signed nanosecond *)
(* part, because the load computes it through a float number of hours and  *)
(* the result is not always a whole second.                                *)
(* A cell of the event_value column is [k, v]: k = "num" with the number   *)
(* v, or k = "nan" for an empty cell (pandas reads it as NaN).  The        *)
(* handler's "no value" (Python's None) is k = "none".                     *)
(* A threshold is a cell whose v holds FOUR TIMES the threshold: the 75th  *)
(* percentile of integers is a multiple of 1/4.                            *)
(***************************************************************************)
EXTENDS Integers, Sequences, FiniteSets, TLC

VARIABLES df, dfTz, TEMP_THRESHOLD, WIND_THRESHOLD, IRR_THRESHOLD,
          pandas, tieOrder, prev, last

vars == <<df, dfTz, TEMP_THRESHOLD, WIND_THRESHOLD, IRR_THRESHOLD,
          pandas, tieOrder, prev, last>>

store == <<df, dfTz, TEMP_THRESHOLD, WIND_THRESHOLD, IRR_THRESHOLD,
           pandas, tieOrder>>

-----------------------------------------------------------------------------
(* Values *)

Sensors == {"temperature", "wind_speed", "irradiance"}

Num(x) == [k |-> "num", v |-> x]
NaN == [k |-> "nan", v |-> 0]
None == [k |-> "none", v |-> 0]

SecondsPerHour == 3600
Day == 24 * SecondsPerHour

\* The defaults of the three thresholds.
DefaultTemp == 15
DefaultWind == 3
DefaultIrr == 200

-----------------------------------------------------------------------------
(* Timestamps *)

Ts(t) == [s |-> t, ns |-> 0]

\* a <= b and a < b on [s, ns] pairs (the ns part is far below a second).
TsLeq(a, b) == a.s < b.s \/ (a.s = b.s /\ a.ns <= b.ns)
TsLess(a, b) == a.s < b.s \/ (a.s = b.s /\ a.ns < b.ns)

-----------------------------------------------------------------------------
(* load: WeatherDataHandler.__init__ *)

\* The nearest integer to n / d, for n >= 0 and d > 0 (no case here is a tie).
RoundDiv(n, d) == (2 * n + d) \div (2 * d)

\* pandas' precision_from_unit for unit 'h': the number of decimals the
\* fractional hours are rounded to (9 up to pandas 1.x, 12 from pandas 2).
HourDigits(build) == IF build = 1 THEN 9 ELSE 12

\* pd.to_timedelta(belief_horizon_in_sec / 3600, unit='h'), as the nanoseconds
\* by which the result exceeds belief_horizon_in_sec whole seconds.  pandas
\* splits the hours into base = int(hours) and frac = hours - base, rounds
\* frac to HourDigits decimals and returns base * m + int(frac * m) with
\* m = 3.6e12 ns.  With r = sec mod 3600 the rounded frac is
\* RoundDiv(r * 10^p, 3600) / 10^p; 3600 = 9 * 400 and 10^p / 400 = 25 * 10^(p-2)
\* is 7 modulo 9, so the rounding moves r * 10^p / 3600 by d / 9 with
\* d = 9 * RoundDiv(7 * r, 9) - 7 * r taken on the residues, and frac * m moves
\* by d * 3600 * 10^(9-p) / 9 ns, truncated.
TimedeltaExcessNs(sec, build) ==
    LET q == (7 * (sec % 9)) % 9
        d == 9 * RoundDiv(q, 9) - q
    IN  IF HourDigits(build) = 9 THEN 400 * d ELSE (4 * d) \div 10

\* self.df['belief_time'] = event_start - to_timedelta(belief_horizon, 'h')
BeliefTime(event_start, sec, build) ==
    [s |-> event_start - sec, ns |-> 0 - TimedeltaExcessNs(sec, build)]

\* One row of the frame after the derived columns are added.
LoadRow(r, build) ==
    [event_start |-> r.event_start,
     belief_horizon_in_sec |-> r.belief_horizon_in_sec,
     sensor |-> r.sensor,
     event_value |-> r.event_value,
     belief_time |-> BeliefTime(r.event_start, r.belief_horizon_in_sec, build)]

LoadFrame(csv, build) == [i \in DOMAIN csv |-> LoadRow(csv[i], build)]

\* self.df[self.df['sensor'] == sensor]['event_value'], in row order.
SensorData(frame, sensor) ==
    LET rows == SelectSeq(frame, LAMBDA r: r.sensor = sensor)
    IN  [i \in DOMAIN rows |-> rows[i].event_value]

RECURSIVE SortAsc(_)
SortAsc(xs) ==
    IF xs = <<>> THEN <<>>
    ELSE LET i == CHOOSE i \in DOMAIN xs: \A j \in DOMAIN xs: xs[i] <= xs[j]
         IN  <<xs[i]>> \o SortAsc(SubSeq(xs, 1, i - 1) \o SubSeq(xs, i + 1, Len(xs)))

\* np.percentile(data, 75), times four: linear interpolation at the virtual
\* index 0.75 * (n - 1); NaN as soon as one value is NaN.
Percentile75(data) ==
    IF \E i \in DOMAIN data: data[i].k = "nan" THEN NaN
    ELSE LET s == SortAsc([i \in DOMAIN data |-> data[i].v])
             n == Len(s)
             lo == (3 * (n - 1)) \div 4
             r == (3 * (n - 1)) % 4
         IN  IF r = 0 THEN Num(4 * s[lo + 1])
             ELSE Num(4 * s[lo + 1] + r * (s[lo + 2] - s[lo + 1]))

Threshold(frame, sensor, default) ==
    IF SensorData(frame, sensor) = <<>> THEN Num(4 * default)
    ELSE Percentile75(SensorData(frame, sensor))

\* value > threshold, as pandas compares: False when either side is NaN.
Exceeds(cell, threshold) ==
    cell.k = "num" /\ threshold.k = "num" /\ 4 * cell.v > threshold.v

-----------------------------------------------------------------------------
(* Exceptions and results of the Store *)

\* A datetime far before 1677-09-21, the earliest instant a nanosecond
\* Timestamp holds.  Python's datetime holds it; whether pd.Timestamp does
\* depends on the pandas release.
FarPast == 0 - 1000 * Day
OutOfNsBounds(t) == t <= FarPast

\* OutOfBoundsDatetime is a subclass of ValueError.
IsValueError(e) == e \in {"ValueError", "OutOfBoundsDatetime"}

NoResult == [op |-> "none"]

Raised(op, args, exc, detail) ==
    [op |-> op, args |-> args, exc |-> exc, detail |-> detail, ok |-> FALSE,
     value |-> <<>>, latest_forecasts |-> <<>>]

Returned(op, args, value, latest) ==
    [op |-> op, args |-> args, exc |-> "", detail |-> "", ok |-> TRUE,
     value |-> value, latest_forecasts |-> latest]

\* pd.Timestamp(datetime): raises for a datetime outside the nanosecond range
\* where Timestamp is nanosecond-only (pandas 1.x).
TimestampRaises(build, dt) == build = 1 /\ OutOfNsBounds(dt.t)

-----------------------------------------------------------------------------
(* sort_values('belief_time', ascending=False) and groupby(...).first() *)

\* Before for an ascending sort.
BeforeAscending(rows, i, j, tie) ==
    \/ TsLess(rows[i].belief_time, rows[j].belief_time)
    \/ /\ rows[i].belief_time = rows[j].belief_time
       /\ IF tie = "stable" THEN i < j ELSE i > j

\* Row i comes before row j in the sorted frame.  The default sort is not
\* stable: among equal belief_times the order is the build's ("stable" keeps
\* the frame's order, "reversed" turns it round).
Before(rows, i, j, tie) ==
    \/ TsLess(rows[j].belief_time, rows[i].belief_time)
    \/ /\ rows[i].belief_time = rows[j].belief_time
       /\ IF tie = "stable" THEN i < j ELSE i > j

RECURSIVE SortValuesDesc(_, _)
SortValuesDesc(rows, tie) ==
    IF rows = <<>> THEN <<>>
    ELSE LET i == CHOOSE i \in DOMAIN rows:
                    \A j \in DOMAIN rows \ {i}: Before(rows, i, j, tie)
         IN  <<rows[i]>> \o
             SortValuesDesc(SubSeq(rows, 1, i - 1) \o SubSeq(rows, i + 1, Len(rows)), tie)

\* GroupBy.first() of one column: the first cell of the group that is not
\* null, and NaN when every cell is.
FirstNonNull(cells) ==
    LET nn == SelectSeq(cells, LAMBDA c: c.k # "nan")
    IN  IF nn = <<>> THEN NaN ELSE nn[1]

\* .first() of one group (its rows in the sorted frame's order), column by
\* column.  belief_time is never null, so its first is the first row's.
GroupFirst(group) ==
    [event_value |-> FirstNonNull([i \in DOMAIN group |-> group[i].event_value]),
     belief_time |-> group[1].belief_time]

-----------------------------------------------------------------------------
(* WeatherDataHandler.get_forecasts *)

\* ForecastMask without its belief_time condition.
ForecastMaskAnyBelief(r, tz, now, then) ==
    then.tz = tz /\ r.event_start = then.t

\* ForecastMask with the comparison of belief_time turned round.
ForecastMaskFuture(r, tz, now, then) ==
    /\ TsLeq(Ts(now.t), r.belief_time)
    /\ then.tz = tz /\ r.event_start = then.t

\* The mask of get_forecasts.  == between a tz-aware and a tz-naive timestamp
\* is False for every row.
ForecastMask(r, tz, now, then) ==
    /\ TsLeq(r.belief_time, Ts(now.t))
    /\ then.tz = tz /\ r.event_start = then.t

\* latest_forecasts of get_forecasts: one row per sensor of the sorted frame.
LatestBySensor(sorted) ==
    [s \in {sorted[i].sensor : i \in DOMAIN sorted} |->
        GroupFirst(SelectSeq(sorted, LAMBDA r: r.sensor = s))]

\* ForecastValue filling a missing sensor with NaN (as a reindex would).
ForecastValueNaN(latest, sensor) ==
    IF sensor \in DOMAIN latest THEN latest[sensor].event_value ELSE NaN

ForecastValue(latest, sensor) ==
    IF sensor \in DOMAIN latest THEN latest[sensor].event_value ELSE None

GetForecasts(frame, tz, build, tie, now, then) ==
    LET relevant == SelectSeq(frame, LAMBDA r: ForecastMask(r, tz, now, then))
        latest == LatestBySensor(SortValuesDesc(relevant, tie))
    IN  IF TimestampRaises(build, now) \/ TimestampRaises(build, then)
        THEN Raised("get_forecasts", <<now, then>>, "OutOfBoundsDatetime",
                    "Out of bounds nanosecond timestamp")
        ELSE IF now.tz # tz
        THEN Raised("get_forecasts", <<now, then>>, "TypeError",
                    "Cannot compare tz-naive and tz-aware")
        ELSE IF relevant = <<>>
        THEN Raised("get_forecasts", <<now, then>>, "ValueError",
                    "No forecasts available")
        ELSE Returned("get_forecasts", <<now, then>>,
                      [s \in Sensors |-> ForecastValue(latest, s)], latest)

-----------------------------------------------------------------------------
(* WeatherDataHandler.get_tomorrow_conditions *)

\* (now_ts + timedelta(days=1)).replace(hour=0, minute=0, second=0, ...)
TomorrowStart(t) == ((t + Day) \div Day) * Day
TomorrowEnd(t) == TomorrowStart(t) + Day

\* TomorrowMask with the end of the window included.
TomorrowMaskThroughEnd(r, now) ==
    /\ TsLeq(r.belief_time, Ts(now.t))
    /\ r.event_start >= TomorrowStart(now.t)
    /\ r.event_start <= TomorrowEnd(now.t)

TomorrowMask(r, now) ==
    /\ TsLeq(r.belief_time, Ts(now.t))
    /\ r.event_start >= TomorrowStart(now.t)
    /\ r.event_start < TomorrowEnd(now.t)

\* latest_forecasts of get_tomorrow_conditions: one row per (event_start, sensor).
LatestByStartAndSensor(sorted) ==
    [g \in {<<sorted[i].event_start, sorted[i].sensor>> : i \in DOMAIN sorted} |->
        GroupFirst(SelectSeq(sorted,
                             LAMBDA r: r.event_start = g[1] /\ r.sensor = g[2]))]

\* latest_forecasts.xs(sensor, level='sensor')['event_value'], as the set of
\* its cells; empty when the sensor is not in the index.
SensorValues(latest, sensor) ==
    {latest[g].event_value : g \in {h \in DOMAIN latest : h[2] = sensor}}

\* any(values > threshold)
AnyExceeds(values, threshold) == \E c \in values: Exceeds(c, threshold)

\* get_tomorrow_conditions reading the three sensors off latest_forecasts
\* without asking first whether each is in its index: .xs raises KeyError.
GetTomorrowConditionsUnguarded(frame, tz, build, tie, thresholds, now) ==
    LET tomorrow == SelectSeq(frame, LAMBDA r: TomorrowMask(r, now))
        latest == LatestByStartAndSensor(SortValuesDesc(tomorrow, tie))
    IN  IF tomorrow = <<>>
        THEN Raised("get_tomorrow_conditions", <<now>>, "ValueError",
                    "No forecasts available")
        ELSE IF \E s \in Sensors: SensorValues(latest, s) = {}
        THEN Raised("get_tomorrow_conditions", <<now>>, "KeyError", "sensor")
        ELSE Returned("get_tomorrow_conditions", <<now>>,
                 [warm |-> AnyExceeds(SensorValues(latest, "temperature"),
                                      thresholds.temperature),
                  sunny |-> AnyExceeds(SensorValues(latest, "irradiance"),
                                       thresholds.irradiance),
                  windy |-> AnyExceeds(SensorValues(latest, "wind_speed"),
                                       thresholds.wind_speed)],
                 latest)

GetTomorrowConditions(frame, tz, build, tie, thresholds, now) ==
    LET tomorrow == SelectSeq(frame, LAMBDA r: TomorrowMask(r, now))
        latest == LatestByStartAndSensor(SortValuesDesc(tomorrow, tie))
    IN  IF TimestampRaises(build, now)
        THEN Raised("get_tomorrow_conditions", <<now>>, "OutOfBoundsDatetime",
                    "Out of bounds nanosecond timestamp")
        ELSE IF now.tz # tz
        THEN Raised("get_tomorrow_conditions", <<now>>, "TypeError",
                    "Cannot compare tz-naive and tz-aware")
        ELSE IF tomorrow = <<>>
        THEN Raised("get_tomorrow_conditions", <<now>>, "ValueError",
                    "No forecasts available")
        ELSE Returned("get_tomorrow_conditions", <<now>>,
                 [warm |-> AnyExceeds(SensorValues(latest, "temperature"),
                                      thresholds.temperature),
                  sunny |-> AnyExceeds(SensorValues(latest, "irradiance"),
                                       thresholds.irradiance),
                  windy |-> AnyExceeds(SensorValues(latest, "wind_speed"),
                                       thresholds.wind_speed)],
                 latest)

-----------------------------------------------------------------------------
(* The Query Service: weather_api/api.py *)

\* A query parameter as the framework hands it over: a string that does not
\* parse as a datetime, or a datetime, with or without a UTC offset.
Malformed == [t |-> 0, tz |-> FALSE, valid |-> FALSE]
Naive(t) == [t |-> t, tz |-> FALSE, valid |-> TRUE]
Aware(t) == [t |-> t, tz |-> TRUE, valid |-> TRUE]

Response(op, args, code, detail, called, result) ==
    [op |-> op, args |-> args, detail |-> detail, code |-> code,
     result |-> result, store_called |-> called]

\* What the framework does with the handler's return value: JSONResponse
\* renders it with allow_nan=False, and a NaN in it fails the request (the
\* three conditions of /tomorrow are booleans).
Render(op, args, result) ==
    IF op = "/forecasts" /\ \E key \in DOMAIN result.value: result.value[key] = NaN
    THEN Response(op, args, 500, "Internal Server Error", TRUE, result)
    ELSE Response(op, args, 200, "", TRUE, result)

\* The try/except of both handlers around the call of the Store.
Translate(op, args, result) ==
    IF result.ok THEN Render(op, args, result)
    ELSE IF IsValueError(result.exc)
    THEN Response(op, args, 404, result.detail, TRUE, result)
    ELSE Response(op, args, 400, result.detail, TRUE, result)

ApiGetForecasts(frame, tz, build, tie, now, then) ==
    IF ~now.valid \/ ~then.valid
    THEN Response("/forecasts", <<now, then>>, 422, "datetime parsing", FALSE, NoResult)
    ELSE Translate("/forecasts", <<now, then>>,
                   GetForecasts(frame, tz, build, tie, now, then))

ApiGetTomorrowConditions(frame, tz, build, tie, thresholds, now) ==
    IF ~now.valid
    THEN Response("/tomorrow", <<now>>, 422, "datetime parsing", FALSE, NoResult)
    ELSE Translate("/tomorrow", <<now>>,
                   GetTomorrowConditions(frame, tz, build, tie, thresholds, now))

ApiHealthCheck ==
    Response("/health", <<>>, 200, "healthy", FALSE, NoResult)

-----------------------------------------------------------------------------
(* Bounds and the inputs drawn *)

\* The most rows a dataset holds.
MaxRows == 2

Csvs(rows) == UNION {[1..n -> rows] : n \in 1..MaxRows}

Values == {NaN, Num(1), Num(5)}
TieOrders == {"stable", "reversed"}

\* get_forecasts: two event times an hour apart, forecast twenty minutes and
\* two hours ahead; queries for the first of them, asked at the instant of the
\* older forecast, twenty minutes before the event and after it.
RowsF == [event_start : {Day, Day + SecondsPerHour},
          belief_horizon_in_sec : {1200, 2 * SecondsPerHour},
          sensor : Sensors, event_value : Values]
NowsF == {Day - 2 * SecondsPerHour, Day - 1200, Day + SecondsPerHour}
ThensF == {Day}

\* get_tomorrow_conditions: event times at the first instant of day 1, an hour
\* later and at the first instant of day 2, forecast two and 26 hours ahead;
\* queries asked two hours before the end of day 0 and of day 1.
RowsT == [event_start : {Day, Day + SecondsPerHour, 2 * Day},
          belief_horizon_in_sec : {2 * SecondsPerHour, 26 * SecondsPerHour},
          sensor : Sensors, event_value : Values]
NowsT == {Day - 2 * SecondsPerHour, 2 * Day - 2 * SecondsPerHour}

\* The service: one event time, forecast two hours ahead.
RowsApi == [event_start : {Day},
            belief_horizon_in_sec : {2 * SecondsPerHour},
            sensor : Sensors, event_value : Values]
RawNows == {Malformed, Naive(Day - SecondsPerHour), Aware(Day - SecondsPerHour),
            Aware(FarPast)}
RawThens == {Malformed, Aware(Day)}

-----------------------------------------------------------------------------
(* The state machine *)

Thresholds ==
    [temperature |-> TEMP_THRESHOLD, irradiance |-> IRR_THRESHOLD,
     wind_speed |-> WIND_THRESHOLD]

\* The state __init__ leaves for the file csv.
Loaded(csv) ==
    /\ df = LoadFrame(csv, pandas)
    /\ TEMP_THRESHOLD = Threshold(LoadFrame(csv, pandas), "temperature", DefaultTemp)
    /\ WIND_THRESHOLD = Threshold(LoadFrame(csv, pandas), "wind_speed", DefaultWind)
    /\ IRR_THRESHOLD = Threshold(LoadFrame(csv, pandas), "irradiance", DefaultIrr)

InitFrom(rows, tzs, builds) ==
    /\ pandas \in builds
    /\ tieOrder \in TieOrders
    /\ dfTz \in tzs
    /\ \E csv \in Csvs(rows): Loaded(csv)
    /\ prev = NoResult
    /\ last = NoResult

\* A caller of the Store's get_forecasts.
CallGetForecasts(now, then) ==
    /\ prev' = last
    /\ last' = GetForecasts(df, dfTz, pandas, tieOrder, now, then)
    /\ UNCHANGED store

\* A caller of the Store's get_tomorrow_conditions.
CallGetTomorrowConditions(now) ==
    /\ prev' = last
    /\ last' = GetTomorrowConditions(df, dfTz, pandas, tieOrder, Thresholds, now)
    /\ UNCHANGED store

\* GET /forecasts with the Store keeping the filtered frame as its frame.
HandleForecastsKeepingFilter(now, then) ==
    /\ prev' = last
    /\ last' = ApiGetForecasts(df, dfTz, pandas, tieOrder, now, then)
    /\ df' = IF now.valid /\ then.valid
             THEN SelectSeq(df, LAMBDA r: ForecastMask(r, dfTz, now, then))
             ELSE df
    /\ UNCHANGED <<dfTz, TEMP_THRESHOLD, WIND_THRESHOLD, IRR_THRESHOLD, pandas, tieOrder>>

\* GET /forecasts
HandleForecasts(now, then) ==
    /\ prev' = last
    /\ last' = ApiGetForecasts(df, dfTz, pandas, tieOrder, now, then)
    /\ UNCHANGED store

\* GET /tomorrow
HandleTomorrow(now) ==
    /\ prev' = last
    /\ last' = ApiGetTomorrowConditions(df, dfTz, pandas, tieOrder, Thresholds, now)
    /\ UNCHANGED store

\* GET /health
HandleHealth ==
    /\ prev' = last
    /\ last' = ApiHealthCheck
    /\ UNCHANGED store

\* The service in front of a loaded Store.
Init == InitFrom(RowsApi, BOOLEAN, {1, 2})
Next ==
    \/ \E now \in RawNows, then \in RawThens: HandleForecasts(now, then)
    \/ \E now \in RawNows: HandleTomorrow(now)
    \/ HandleHealth
Spec == Init /\ [][Next]_vars

\* The Store's get_forecasts under its callers.
InitF == InitFrom(RowsF, {TRUE}, {1, 2})
NextF == \E now \in NowsF, then \in ThensF: CallGetForecasts(Aware(now), Aware(then))
SpecF == InitF /\ [][NextF]_vars

\* The Store's get_tomorrow_conditions under its callers (the horizons drawn
\* are whole hours, which every pandas release converts alike).
InitT == InitFrom(RowsT, {TRUE}, {2})
NextT == \E now \in NowsT: CallGetTomorrowConditions(Aware(now))
SpecT == InitT /\ [][NextT]_vars

-----------------------------------------------------------------------------
(* Claims about get_forecasts (checked under SpecF) *)

\* The filter as the specification words it, on whole-second arguments.
Qualifies(r, now, then) == TsLeq(r.belief_time, Ts(now)) /\ r.event_start = then

QualifyingRows(sensor, now, then) ==
    {i \in DOMAIN df : df[i].sensor = sensor /\ Qualifies(df[i], now, then)}

ForecastDone(res) == res.op = "get_forecasts"
NowOf(res) == res.args[1].t
ThenOf(res) == res.args[2].t

\* C1: every value get_forecasts(now, then) returns for a sensor is the
\* event_value of a loaded observation of that sensor with belief_time <= now
\* and event_start = then.
C1_NoLeak ==
    (ForecastDone(last) /\ last.ok) =>
        \A s \in Sensors:
            last.value[s] # None =>
                \E i \in QualifyingRows(s, NowOf(last), ThenOf(last)):
                    df[i].event_value = last.value[s]

\* A value was returned for a sensor that also has an observation of the same
\* event_start believed only after now, carrying another value.
C1_Witness ==
    /\ ForecastDone(last) /\ last.ok
    /\ \E s \in Sensors, i \in DOMAIN df:
          /\ last.value[s].k = "num"
          /\ df[i].sensor = s /\ df[i].event_start = ThenOf(last)
          /\ ~TsLeq(df[i].belief_time, Ts(NowOf(last)))
          /\ df[i].event_value # last.value[s]

\* C2: for each sensor the value returned is the event_value of an observation
\* whose belief_time is the greatest among the sensor's qualifying
\* observations, also when that observation's value is null.
C2_LatestWins ==
    (ForecastDone(last) /\ last.ok) =>
        \A s \in Sensors:
            last.value[s] # None =>
                \E i \in QualifyingRows(s, NowOf(last), ThenOf(last)):
                    /\ \A j \in QualifyingRows(s, NowOf(last), ThenOf(last)):
                          TsLeq(df[j].belief_time, df[i].belief_time)
                    /\ df[i].event_value = last.value[s]

\* C3: get_forecasts fails with NotFound exactly when no observation of any
\* sensor qualifies; otherwise it returns the three keys, with the absent
\* marker for exactly the sensors without a qualifying observation.
C3_NotFoundIffEmpty ==
    ForecastDone(last) =>
        /\ ~last.ok <=> \A s \in Sensors: QualifyingRows(s, NowOf(last), ThenOf(last)) = {}
        /\ ~last.ok => last.exc = "ValueError" /\ last.detail = "No forecasts available"
        /\ last.ok =>
              /\ DOMAIN last.value = Sensors
              /\ \A s \in Sensors:
                    last.value[s] = None <=>
                        QualifyingRows(s, NowOf(last), ThenOf(last)) = {}

\* A partial result: one sensor with a value, another with the absent marker.
C3_Witness ==
    /\ ForecastDone(last) /\ last.ok
    /\ \E s, u \in Sensors: last.value[s].k = "num" /\ last.value[u] = None

\* C4: for a fixed then and now1 <= now2, a successful query stays successful,
\* a sensor with a selected observation keeps one, and the belief_time of the
\* selected observation does not decrease.
C4_Monotone ==
    (/\ ForecastDone(prev) /\ ForecastDone(last)
     /\ ThenOf(prev) = ThenOf(last) /\ NowOf(prev) <= NowOf(last)
     /\ prev.ok) =>
        /\ last.ok
        /\ \A s \in Sensors:
              prev.value[s] # None =>
                  /\ last.value[s] # None
                  /\ TsLeq(prev.latest_forecasts[s].belief_time,
                           last.latest_forecasts[s].belief_time)

\* The later query replaced a sensor's observation by a more recent one and
\* found a sensor the earlier one had not.
C4_Witness ==
    /\ ForecastDone(prev) /\ ForecastDone(last)
    /\ ThenOf(prev) = ThenOf(last) /\ NowOf(prev) < NowOf(last)
    /\ prev.ok /\ last.ok
    /\ \E s \in Sensors:
          /\ prev.value[s] # None
          /\ TsLess(prev.latest_forecasts[s].belief_time,
                    last.latest_forecasts[s].belief_time)

\* C10: after load every observation has belief_time = event_start -
\* belief_horizon_in_sec and belief_time <= event_start.
C10_BeliefTimeDerived ==
    \A i \in DOMAIN df:
        /\ df[i].belief_time = Ts(df[i].event_start - df[i].belief_horizon_in_sec)
        /\ TsLeq(df[i].belief_time, Ts(df[i].event_start))

-----------------------------------------------------------------------------
(* Claims about get_tomorrow_conditions (checked under SpecT) *)

TomorrowDone(res) == res.op = "get_tomorrow_conditions"

FloorToDay(t) == (t \div Day) * Day

\* The window and the filter as the specification words them.
InWindow(r, now) ==
    /\ r.event_start >= FloorToDay(now) + Day
    /\ r.event_start < FloorToDay(now) + 2 * Day
Relevant(r, now) == TsLeq(r.belief_time, Ts(now)) /\ InWindow(r, now)

\* The relevant observations of one sensor for one event_start, and those of
\* them with the greatest belief_time.
Candidates(sensor, start, now) ==
    {i \in DOMAIN df :
        df[i].sensor = sensor /\ df[i].event_start = start /\ Relevant(df[i], now)}
LatestOf(sensor, start, now) ==
    {i \in Candidates(sensor, start, now) :
        \A j \in Candidates(sensor, start, now):
            TsLeq(df[j].belief_time, df[i].belief_time)}
Starts == {df[i].event_start : i \in DOMAIN df}

\* Where observations tie on the greatest belief_time the claim leaves open
\* which of them is meant: the condition must be true when all of them exceed
\* the threshold and false when none does.
ConditionAgrees(cond, sensor, threshold, now) ==
    /\ (\E e \in Starts:
          /\ LatestOf(sensor, e, now) # {}
          /\ \A i \in LatestOf(sensor, e, now): Exceeds(df[i].event_value, threshold))
       => cond
    /\ cond =>
          \E e \in Starts: \E i \in LatestOf(sensor, e, now):
              Exceeds(df[i].event_value, threshold)

\* C5: warm (sunny, windy) is true exactly when some event_start of tomorrow's
\* window has a latest-belief_time temperature (irradiance, wind_speed)
\* observation, among those with belief_time <= now, whose value is above the
\* sensor's threshold; a superseded forecast does not count.
C5_AnyLatestExceeds ==
    (TomorrowDone(last) /\ last.ok) =>
        /\ ConditionAgrees(last.value.warm, "temperature", TEMP_THRESHOLD, NowOf(last))
        /\ ConditionAgrees(last.value.sunny, "irradiance", IRR_THRESHOLD, NowOf(last))
        /\ ConditionAgrees(last.value.windy, "wind_speed", WIND_THRESHOLD, NowOf(last))

\* warm is false although a relevant temperature observation exceeds the
\* threshold: a later forecast for the same event_start, not above the
\* threshold, supersedes it.
C5_Witness ==
    /\ TomorrowDone(last) /\ last.ok /\ ~last.value.warm
    /\ \E i, j \in DOMAIN df:
          /\ df[i].sensor = "temperature" /\ df[j].sensor = "temperature"
          /\ df[i].event_start = df[j].event_start
          /\ Relevant(df[i], NowOf(last)) /\ Relevant(df[j], NowOf(last))
          /\ TsLess(df[i].belief_time, df[j].belief_time)
          /\ Exceeds(df[i].event_value, TEMP_THRESHOLD)
          /\ ~Exceeds(df[j].event_value, TEMP_THRESHOLD)

RelevantRows(now) == SelectSeq(df, LAMBDA r: Relevant(r, now))

Outcome(res) == <<res.ok, res.exc, res.value>>

\* C6 (as amended): with the three thresholds as computed at load, the
\* outcome of get_tomorrow_conditions(now) is the outcome on the observations
\* with belief_time <= now and event_start in [floor_to_day(now) + 1 day,
\* floor_to_day(now) + 2 days) alone.
C6_OnlyWindowGivenThresholds ==
    TomorrowDone(last) =>
        Outcome(last) =
            Outcome(GetTomorrowConditions(RelevantRows(NowOf(last)), dfTz, pandas,
                                          tieOrder, Thresholds, last.args[1]))

\* C6 (as claimed): the outcome depends on nothing but those observations, so
\* a Store loaded without the other observations gives the same outcome.
C6_OnlyWindow ==
    TomorrowDone(last) =>
        Outcome(last) =
            Outcome(GetTomorrowConditions(RelevantRows(NowOf(last)), dfTz, pandas,
                        tieOrder,
                        [temperature |-> Threshold(RelevantRows(NowOf(last)),
                                                   "temperature", DefaultTemp),
                         irradiance |-> Threshold(RelevantRows(NowOf(last)),
                                                  "irradiance", DefaultIrr),
                         wind_speed |-> Threshold(RelevantRows(NowOf(last)),
                                                  "wind_speed", DefaultWind)],
                        last.args[1]))

\* A successful call on a dataset that also holds an observation known at now
\* for the first instant after the window, and one for now's own day.
C6_Witness ==
    /\ TomorrowDone(last) /\ last.ok
    /\ \E i \in DOMAIN df:
          /\ TsLeq(df[i].belief_time, Ts(NowOf(last)))
          /\ \/ df[i].event_start = FloorToDay(NowOf(last)) + 2 * Day
             \/ df[i].event_start < FloorToDay(NowOf(last)) + Day

\* C7: get_tomorrow_conditions fails with NotFound exactly when no observation
\* is relevant; otherwise it returns the three booleans, and a condition whose
\* sensor has no relevant observation is false.
C7_NotFoundIffEmpty ==
    TomorrowDone(last) =>
        /\ ~last.ok <=> RelevantRows(NowOf(last)) = <<>>
        /\ ~last.ok => last.exc = "ValueError" /\ last.detail = "No forecasts available"
        /\ last.ok =>
              /\ DOMAIN last.value = {"warm", "sunny", "windy"}
              /\ \A c \in DOMAIN last.value: last.value[c] \in BOOLEAN
              /\ (\A i \in DOMAIN RelevantRows(NowOf(last)):
                     RelevantRows(NowOf(last))[i].sensor # "temperature")
                 => ~last.value.warm
              /\ (\A i \in DOMAIN RelevantRows(NowOf(last)):
                     RelevantRows(NowOf(last))[i].sensor # "irradiance")
                 => ~last.value.sunny
              /\ (\A i \in DOMAIN RelevantRows(NowOf(last)):
                     RelevantRows(NowOf(last))[i].sensor # "wind_speed")
                 => ~last.value.windy

\* A success with one condition true while another sensor has no relevant
\* observation.
C7_Witness ==
    /\ TomorrowDone(last) /\ last.ok
    /\ last.value.warm /\ ~last.value.windy
    /\ \A i \in DOMAIN RelevantRows(NowOf(last)):
          RelevantRows(NowOf(last))[i].sensor = "temperature"

-----------------------------------------------------------------------------
(* Claims about the service (checked under Spec) *)

QueryDone(res) == res.op \in {"/forecasts", "/tomorrow"}

WellFormed(res) == \A i \in DOMAIN res.args: res.args[i].valid

\* The Store's NotFound: the ValueError it raises itself on an empty filtered set.
StoreNotFound(result) ==
    ~result.ok /\ result.exc = "ValueError" /\ result.detail = "No forecasts available"

\* C8: the response code follows the outcome class: 422 for a malformed
\* timestamp, with the Store not invoked; 404 with a 'No forecasts available'
\* detail for the Store's NotFound; 400 and never 404 for every other failure
\* of the Store; 200 for a success; so 404 only when the filtered set was empty.
C8_CodeByOutcome ==
    QueryDone(last) =>
        /\ ~WellFormed(last) => last.code = 422 /\ ~last.store_called
        /\ WellFormed(last) =>
              /\ last.store_called
              /\ last.result.ok => last.code = 200
              /\ StoreNotFound(last.result) =>
                    last.code = 404 /\ last.detail = "No forecasts available"
              /\ (~last.result.ok /\ ~StoreNotFound(last.result)) => last.code = 400
        /\ last.code = 404 => StoreNotFound(last.result)

====
